---- MODULE Spec2Model ----
(***************************************************************************)
(* Batch summarisation of WeChat articles: the URL extractor               *)
(* (WeChatUrlExtractorService), the summariser client (DeepSeekService)    *)
(* and the route POST /api/batch-summarize with its store.                 *)
(*                                                                         *)
(* Texts of a page are kept run-length encoded: a text is a sequence of    *)
(* runs [k |-> character, n |-> repetitions], adjacent runs differing in   *)
(* k.  "sp" is the space, "nl" the line feed, any other k an ordinary      *)
(* character.  The encoding is exact, so lengths of 50 and of 15000        *)
(* characters are the program's own.                                       *)
(***************************************************************************)
EXTENDS Integers, Sequences, FiniteSets, TLC

\* ------------------------------------------------------------------ bounds

\* Longest text, in runs, handed to the Content Cleaner on its own.
MaxRuns == 3

\* ------------------------------------------------------------------- texts

R(k, n) == [k |-> k, n |-> n]

EmptyStr == << >>

IsWs(k) == k \in {"sp", "nl"}

\* s followed by the run r, merged into the last run when the character is the same.
AddRun(s, r) ==
  IF r.n = 0 THEN s
  ELSE IF s # << >> /\ s[Len(s)].k = r.k
       THEN [s EXCEPT ![Len(s)] = R(r.k, @.n + r.n)]
       ELSE Append(s, r)

RECURSIVE Concat(_, _)
Concat(s, t) == IF t = << >> THEN s ELSE Concat(AddRun(s, Head(t)), Tail(t))

RECURSIVE StrLen(_)
StrLen(s) == IF s = << >> THEN 0 ELSE Head(s).n + StrLen(Tail(s))

\* String.prototype.trim: leading and trailing white space removed.
RECURSIVE TrimStart(_)
TrimStart(s) ==
  IF s = << >> THEN s
  ELSE IF IsWs(Head(s).k) THEN TrimStart(Tail(s)) ELSE s

RECURSIVE TrimEnd(_)
TrimEnd(s) ==
  IF s = << >> THEN s
  ELSE IF IsWs(s[Len(s)].k) THEN TrimEnd(SubSeq(s, 1, Len(s) - 1)) ELSE s

Trim(s) == TrimEnd(TrimStart(s))

\* String.prototype.substring(0, max).
RECURSIVE Substring(_, _)
Substring(s, max) ==
  IF s = << >> \/ max <= 0 THEN << >>
  ELSE IF Head(s).n >= max THEN << R(Head(s).k, max) >>
       ELSE << Head(s) >> \o Substring(Tail(s), max - Head(s).n)

\* The last run of the white-space block that starts at run i.
RECURSIVE BlockEnd(_, _)
BlockEnd(s, i) ==
  IF i < Len(s) /\ IsWs(s[i + 1].k) THEN BlockEnd(s, i + 1) ELSE i

\* content.replace(/\s+/g, ' '): every white-space block becomes one space.
RECURSIVE ReplaceWhitespaceFrom(_, _)
ReplaceWhitespaceFrom(s, i) ==
  IF i > Len(s) THEN << >>
  ELSE IF IsWs(s[i].k)
       THEN << R("sp", 1) >> \o ReplaceWhitespaceFrom(s, BlockEnd(s, i) + 1)
       ELSE << s[i] >> \o ReplaceWhitespaceFrom(s, i + 1)

ReplaceWhitespace(s) == ReplaceWhitespaceFrom(s, 1)

RECURSIVE NewlinesIn(_, _, _)
NewlinesIn(s, i, j) ==
  IF i > j THEN 0
  ELSE (IF s[i].k = "nl" THEN s[i].n ELSE 0) + NewlinesIn(s, i + 1, j)

\* content.replace(/\n\s*\n/g, '\n\n'): in a white-space block holding two line
\* feeds or more, the stretch from its first to its last line feed becomes
\* two line feeds (\s* is greedy and gives back up to the last line feed).
RECURSIVE NormalizeParagraphsFrom(_, _)
NormalizeParagraphsFrom(s, i) ==
  IF i > Len(s) THEN << >>
  ELSE IF IsWs(s[i].k)
       THEN LET j == BlockEnd(s, i)
                nls == {m \in i..j : s[m].k = "nl"}
                f == CHOOSE m \in nls : \A o \in nls : m <= o
                l == CHOOSE m \in nls : \A o \in nls : m >= o
            IN  IF NewlinesIn(s, i, j) >= 2
                THEN SubSeq(s, i, f - 1) \o << R("nl", 2) >> \o SubSeq(s, l + 1, j)
                       \o NormalizeParagraphsFrom(s, j + 1)
                ELSE SubSeq(s, i, j) \o NormalizeParagraphsFrom(s, j + 1)
       ELSE << s[i] >> \o NormalizeParagraphsFrom(s, i + 1)

NormalizeParagraphs(s) == NormalizeParagraphsFrom(s, 1)

\* ---------------------------------------------------------- Content Cleaner

maxContentLength == 15000

cleanContent(content) ==
  Substring(Trim(NormalizeParagraphs(ReplaceWhitespace(content))), maxContentLength)

\* -------------------------------------------------------------------- pages

\* A literal of the program, as a text of one run.
Lit(name) == << R(name, 1) >>

\* An optional value: << >> is undefined, << v >> is v.
Undefined == << >>
Some(v) == << v >>

\* A fetched document is its elements in document order.  An element is
\* [tag, id, cls, children, date]; a child is [tag, cls, text].  date tells
\* what the three date patterns find in the element's text.
El(tag, id, cls, children, date) ==
  [tag |-> tag, id |-> id, cls |-> cls, children |-> children, date |-> date]

Child(tag, cls, text) == [tag |-> tag, cls |-> cls, text |-> text]

\* A selector '#id', '.cls', 'tag' or 'tag.cls'; "" leaves the part open.
Sel(tag, id, cls) == [tag |-> tag, id |-> id, cls |-> cls]

Matches(el, sel) ==
  /\ sel.tag = "" \/ el.tag = sel.tag
  /\ sel.id = "" \/ el.id = sel.id
  /\ sel.cls = "" \/ sel.cls \in el.cls

\* $(selector).first(): << >> when nothing matches.
RECURSIVE First(_, _)
First(page, sel) ==
  IF page = << >> THEN << >>
  ELSE IF Matches(Head(page), sel) THEN << Head(page) >> ELSE First(Tail(page), sel)

RECURSIVE TextOf(_)
TextOf(children) ==
  IF children = << >> THEN EmptyStr
  ELSE Concat(Head(children).text, TextOf(Tail(children)))

\* $(selector).first().text().trim(): the empty text when nothing matches.
FirstText(page, sel) ==
  LET e == First(page, sel) IN IF e = << >> THEN EmptyStr ELSE Trim(TextOf(e[1].children))

\* The first selector of the list, from i on, whose trimmed text is not empty.
RECURSIVE FirstNonEmptyText(_, _, _)
FirstNonEmptyText(page, selectors, i) ==
  IF i > Len(selectors) THEN EmptyStr
  ELSE IF FirstText(page, selectors[i]) # EmptyStr THEN FirstText(page, selectors[i])
       ELSE FirstNonEmptyText(page, selectors, i + 1)

titleSelectors ==
  << Sel("", "activity-name", ""), Sel("", "", "rich_media_title"),
     Sel("h1", "", "rich_media_title"), Sel("", "", "weui-article__title"),
     Sel("h1", "", "") >>

extractTitle(page) == FirstNonEmptyText(page, titleSelectors, 1)

authorSelectors ==
  << Sel("", "", "rich_media_meta_text"), Sel("", "", "profile_nickname"),
     Sel("", "js_name", ""), Sel("", "", "weui-article__author") >>

extractAuthor(page) == FirstNonEmptyText(page, authorSelectors, 1)

\* What the patterns find in a text: ymdCn is /(\d{4})年(\d{1,2})月(\d{1,2})日/,
\* ymdDash is /(\d{4})-(\d{1,2})-(\d{1,2})/, mdCn is /(\d{1,2})月(\d{1,2})日/;
\* each is << >> (no match) or the tuple of its groups.
DateIn(ymdCn, ymdDash, mdCn) == [ymdCn |-> ymdCn, ymdDash |-> ymdDash, mdCn |-> mdCn]

NoDate == DateIn(<< >>, << >>, << >>)

Date(y, m, d) == [y |-> y, m |-> m, d |-> d]

\* new Date(): the moment of the call.
Now == Date("now", "now", "now")

\* The first pattern that matches decides.  A match of three groups
\* (match.length 4) is a full date; a match of two (match.length 3) is a month
\* and a day of the current year.
parseChineseDate(date) ==
  IF date.ymdCn # << >> THEN Some(Date(date.ymdCn[1], date.ymdCn[2], date.ymdCn[3]))
  ELSE IF date.ymdDash # << >>
       THEN Some(Date(date.ymdDash[1], date.ymdDash[2], date.ymdDash[3]))
       ELSE IF date.mdCn # << >>
            THEN Some(Date("currentYear", date.mdCn[1], date.mdCn[2]))
            ELSE Undefined

dateSelectors ==
  << Sel("", "publish_time", ""), Sel("", "", "rich_media_meta_text"),
     Sel("", "", "weui-article__time") >>

RECURSIVE extractPublishDateFrom(_, _)
extractPublishDateFrom(page, i) ==
  IF i > Len(dateSelectors) THEN Undefined
  ELSE LET e == First(page, dateSelectors[i])
       IN  IF FirstText(page, dateSelectors[i]) # EmptyStr
              /\ parseChineseDate(e[1].date) # Undefined
           THEN parseChineseDate(e[1].date)
           ELSE extractPublishDateFrom(page, i + 1)

extractPublishDate(page) == extractPublishDateFrom(page, 1)

contentSelectors ==
  << Sel("", "js_content", ""), Sel("", "", "rich_media_content"),
     Sel("", "", "weui-article__bd") >>

\* find('script, style, .rich_media_tool, .qr_code_pc_outer').remove()
Removed(c) ==
  c.tag \in {"script", "style"} \/ c.cls \in {"rich_media_tool", "qr_code_pc_outer"}

RECURSIVE Remaining(_)
Remaining(children) ==
  IF children = << >> THEN << >>
  ELSE IF Removed(Head(children)) THEN Remaining(Tail(children))
       ELSE << Head(children) >> \o Remaining(Tail(children))

MinParagraphLength == 10

\* find('p, div, section').each: every paragraph whose trimmed text is longer
\* than 10 characters is added, followed by two line feeds.
RECURSIVE Paragraphs(_)
Paragraphs(children) ==
  IF children = << >> THEN EmptyStr
  ELSE LET c == Head(children)
           text == Trim(c.text)
       IN  IF c.tag \in {"p", "div", "section"} /\ text # EmptyStr
              /\ StrLen(text) > MinParagraphLength
           THEN Concat(AddRun(text, R("nl", 2)), Paragraphs(Tail(children)))
           ELSE Paragraphs(Tail(children))

\* The first selector whose element exists decides, also when it yields nothing.
RECURSIVE extractContentFrom(_, _)
extractContentFrom(page, i) ==
  IF i > Len(contentSelectors) THEN EmptyStr
  ELSE LET e == First(page, contentSelectors[i])
       IN  IF e # << >>
           THEN LET kept == Remaining(e[1].children)
                IN  IF Paragraphs(kept) # EmptyStr THEN Paragraphs(kept)
                    ELSE Trim(TextOf(kept))
           ELSE extractContentFrom(page, i + 1)

extractContent(page) == extractContentFrom(page, 1)

\* ---------------------------------------------------------- Page Extractor

\* What axios.get and cheerio.load end in: a document, or something thrown
\* (an Error with its message, or a value that is no Error).  A message is
\* the sequence of its parts, << >> being the empty string.
Response(page) ==
  [kind |-> "response", page |-> page, isError |-> FALSE, message |-> << >>]

Thrown(isError, message) ==
  [kind |-> "thrown", page |-> << >>, isError |-> isError, message |-> message]

\* ExtractedWeChatArticle; error is << >> when the field is absent.
Extracted(url, title, content, author, publishDate, error) ==
  [url |-> url, title |-> title, content |-> content, author |-> author,
   publishDate |-> publishDate, error |-> error]

\* The literals of the extractor: '无标题', '提取失败', '无效链接', and its
\* reasons '文章内容提取失败或内容过短', '未知错误', '不是有效的微信文章链接'.
Untitled == Lit("<untitled>")
ExtractFailedTitle == Lit("<extract failed>")
InvalidLinkTitle == Lit("<invalid link>")
ContentTooShort == << "content extraction failed or too short" >>
UnknownError == << "unknown error" >>
InvalidLinkReason == << "not a valid WeChat article link" >>

\* The catch block of extractSingleWeChatArticle.
ExtractFailure(url, isError, message) ==
  Extracted(url, ExtractFailedTitle, EmptyStr, EmptyStr, Undefined,
            Some(IF isError THEN message ELSE UnknownError))

MinContentLength == 50

\* if (!content || content.length < 50) throw ...
ContentRejected(content) == content = EmptyStr \/ StrLen(content) < MinContentLength

extractSingleWeChatArticle(url, outcome) ==
  IF outcome.kind = "thrown" THEN ExtractFailure(url, outcome.isError, outcome.message)
  ELSE LET title == extractTitle(outcome.page)
           author == extractAuthor(outcome.page)
           publishDate == extractPublishDate(outcome.page)
           content == extractContent(outcome.page)
       IN  IF ContentRejected(content) THEN ExtractFailure(url, TRUE, ContentTooShort)
           ELSE Extracted(url, IF title # EmptyStr THEN title ELSE Untitled,
                          cleanContent(content), author, publishDate, Undefined)

\* A JavaScript truth test of an optional message: absent and '' are false.
Truthy(error) == error # Undefined /\ error[1] # << >>

\* ------------------------------------------------------------ URL validity

\* A candidate URL is kept as what new URL(url) makes of it: parses is FALSE
\* when the constructor throws; pathname is a sequence of characters.
Url(raw, parses, hostname, pathname) ==
  [raw |-> raw, parses |-> parses, hostname |-> hostname, pathname |-> pathname]

StartsWith(s, prefix) ==
  Len(s) >= Len(prefix) /\ SubSeq(s, 1, Len(prefix)) = prefix

ArticlePathPrefix == << "/", "s", "/" >>

\* The validity predicate without the test of the path.
isWeChatArticleUrlAnyPath(url) ==
  IF ~url.parses THEN FALSE ELSE url.hostname = "mp.weixin.qq.com"

isWeChatArticleUrl(url) ==
  IF ~url.parses THEN FALSE
  ELSE url.hostname = "mp.weixin.qq.com" /\ StartsWith(url.pathname, ArticlePathPrefix)

RECURSIVE Filter(_, _)
Filter(urls, keep) ==
  IF urls = << >> THEN << >>
  ELSE IF isWeChatArticleUrl(Head(urls)) = keep
       THEN << Head(urls) >> \o Filter(Tail(urls), keep)
       ELSE Filter(Tail(urls), keep)

InvalidEntry(url) ==
  Extracted(url, InvalidLinkTitle, EmptyStr, EmptyStr, Undefined, Some(InvalidLinkReason))

concurrencyLimit == 2

\* validUrls.slice(i): all that is left.
SliceRest(validUrls, i) == SubSeq(validUrls, i + 1, Len(validUrls))

\* validUrls.slice(i, i + concurrencyLimit), i counted from 0.
Slice(validUrls, i) ==
  SubSeq(validUrls, i + 1,
         IF i + concurrencyLimit < Len(validUrls) THEN i + concurrencyLimit
         ELSE Len(validUrls))

\* -------------------------------------------------------- Summarizer Client

\* A JavaScript value as JSON.parse yields it: t is its type, v its text (of a
\* string, a number or a boolean), items the elements of an array.
JsString(text) == [t |-> "string", v |-> text, items |-> << >>]
JsNumber(text) == [t |-> "number", v |-> text, items |-> << >>]
JsArray(items) == [t |-> "array", v |-> EmptyStr, items |-> items]
JsNull == [t |-> "null", v |-> EmptyStr, items |-> << >>]
JsUndefined == [t |-> "undefined", v |-> EmptyStr, items |-> << >>]

JsTruthy(x) ==
  CASE x.t \in {"undefined", "null"} -> FALSE
    [] x.t = "string" -> x.v # EmptyStr
    [] x.t = "number" -> x.v # Lit("0")
    [] OTHER -> TRUE

\* a || b
JsOr(a, b) == IF JsTruthy(a) THEN a ELSE b

SummaryResult(content, keyPoints, sentiment, category) ==
  [content |-> content, keyPoints |-> keyPoints, sentiment |-> sentiment,
   category |-> category]

\* '未分类'
Uncategorized == Lit("<uncategorized>")

\* The text the model answers with: text is the raw text; json tells what
\* response.match(/\{[\s\S]*\}/) and JSON.parse make of it: match is FALSE when
\* no brace-delimited stretch is found, parses is FALSE when JSON.parse throws,
\* and fields are the four fields read of the parsed object.
AiResponse(text, match, parses, fields) ==
  [text |-> text, match |-> match, parses |-> parses, fields |-> fields]

Fields(summary, keyPoints, sentiment, category) ==
  [summary |-> summary, keyPoints |-> keyPoints, sentiment |-> sentiment,
   category |-> category]

NoFields == Fields(JsUndefined, JsUndefined, JsUndefined, JsUndefined)

\* response.split('\n'): cur is the line being read.
RECURSIVE SplitLinesFrom(_, _, _)
SplitLinesFrom(s, i, cur) ==
  IF i > Len(s) THEN << cur >>
  ELSE IF s[i].k = "nl"
       THEN << cur >> \o [m \in 1..(s[i].n - 1) |-> EmptyStr]
              \o SplitLinesFrom(s, i + 1, EmptyStr)
       ELSE SplitLinesFrom(s, i + 1, Append(cur, s[i]))

RECURSIVE NonBlank(_)
NonBlank(lines) ==
  IF lines = << >> THEN << >>
  ELSE IF Trim(Head(lines)) # EmptyStr THEN << Head(lines) >> \o NonBlank(Tail(lines))
       ELSE NonBlank(Tail(lines))

\* lines.join(' ')
RECURSIVE Join(_)
Join(lines) ==
  IF lines = << >> THEN EmptyStr
  ELSE IF Len(lines) = 1 THEN lines[1]
       ELSE Concat(AddRun(Head(lines), R("sp", 1)), Join(Tail(lines)))

FallbackKeyPoints == 3
FallbackSummaryLength == 200

\* The fallback with every non-blank line as a key point.
fallbackParsingAllLines(response) ==
  LET lines == NonBlank(SplitLinesFrom(response.text, 1, EmptyStr))
  IN  SummaryResult(
        JsString(AddRun(Substring(Join(lines), FallbackSummaryLength), R(".", 3))),
        JsArray([m \in 1..Len(lines) |-> JsString(lines[m])]),
        JsString(Lit("neutral")),
        JsString(Uncategorized))

fallbackParsing(response) ==
  LET lines == NonBlank(SplitLinesFrom(response.text, 1, EmptyStr))
      first == SubSeq(lines, 1, IF Len(lines) < FallbackKeyPoints THEN Len(lines)
                                ELSE FallbackKeyPoints)
  IN  SummaryResult(
        JsString(AddRun(Substring(Join(first), FallbackSummaryLength), R(".", 3))),
        JsArray([m \in 1..Len(first) |-> JsString(first[m])]),
        JsString(Lit("neutral")),
        JsString(Uncategorized))

parseSummaryResponse(response) ==
  IF response.match /\ response.parses
  THEN SummaryResult(JsOr(response.fields.summary, JsString(EmptyStr)),
                     JsOr(response.fields.keyPoints, JsArray(<< >>)),
                     JsOr(response.fields.sentiment, JsString(Lit("neutral"))),
                     JsOr(response.fields.category, JsString(Uncategorized)))
  ELSE fallbackParsing(response)

\* What axios.post ends in: an answer whose choices[0].message.content is
\* the text, or something thrown (a transport failure, a status outside 2xx).
Answer(response) == [kind |-> "answer", response |-> response]
PostThrown == [kind |-> "thrown", response |-> AiResponse(EmptyStr, FALSE, FALSE, NoFields)]

\* 'Failed to summarize article: ' and the error
SummarizeFailed == << "Failed to summarize article: ", "<error>" >>

NoSummary == SummaryResult(JsUndefined, JsUndefined, JsUndefined, JsUndefined)

\* summarizeArticle: a SummaryResult, or, thrown, the message of a new Error.
summarizeArticle(outcome) ==
  IF outcome.kind = "thrown"
  THEN [ok |-> FALSE, value |-> NoSummary, message |-> SummarizeFailed]
  ELSE [ok |-> TRUE, value |-> parseSummaryResponse(outcome.response), message |-> << >>]

\* -------------------------------------------------------------------- store

\* The store is its three tables, each a set of rows.
\* An upsert is one statement of the store: the row of the unique key is
\* updated when there is one, and a row is inserted otherwise.
EmptyStore == [accounts |-> {}, articles |-> {}, summaries |-> {}]

\* The id of a new row of a table: rows are never deleted.
NewId(rows) == Cardinality(rows) + 1

\* '通过批量URL导入创建'
AccountDescription == Lit("<created by batch URL import>")

\* prisma.weChatAccount.upsert({ where: { name }, update: {}, create: ... }):
\* the store afterwards and the row returned.
AccountUpsert(st, name) ==
  IF \E a \in st.accounts : a.name = name
  THEN [store |-> st, row |-> CHOOSE a \in st.accounts : a.name = name]
  ELSE LET row == [id |-> NewId(st.accounts), name |-> name, displayName |-> name,
                   description |-> AccountDescription]
       IN  [store |-> [st EXCEPT !.accounts = @ \cup {row}],
            row |-> row]

\* prisma.article.create in place of the upsert.
ArticleCreate(st, data) ==
  LET row == [id |-> NewId(st.articles), url |-> data.url, title |-> data.title,
              content |-> data.content, publishDate |-> data.publishDate,
              author |-> data.author, accountId |-> data.accountId]
  IN  [store |-> [st EXCEPT !.articles = @ \cup {row}], row |-> row]

\* prisma.article.upsert({ where: { url }, update: ..., create: ... })
ArticleUpsert(st, data) ==
  IF \E a \in st.articles : a.url = data.url
  THEN LET old == CHOOSE a \in st.articles : a.url = data.url
           row == [old EXCEPT !.title = data.title, !.content = data.content,
                              !.publishDate = data.publishDate,
                              !.author = data.author, !.accountId = data.accountId]
       IN  [store |-> [st EXCEPT !.articles = (@ \ {old}) \cup {row}], row |-> row]
  ELSE LET row == [id |-> NewId(st.articles), url |-> data.url, title |-> data.title,
                   content |-> data.content, publishDate |-> data.publishDate,
                   author |-> data.author, accountId |-> data.accountId]
       IN  [store |-> [st EXCEPT !.articles = @ \cup {row}],
            row |-> row]

\* prisma.summary.upsert({ where: { articleId }, update: ..., create: ... })
SummaryUpsert(st, data) ==
  IF \E x \in st.summaries : x.articleId = data.articleId
  THEN LET old == CHOOSE x \in st.summaries : x.articleId = data.articleId
           row == [old EXCEPT !.content = data.content, !.keyPoints = data.keyPoints,
                              !.sentiment = data.sentiment,
                              !.category = data.category]
       IN  [store |-> [st EXCEPT !.summaries = (@ \ {old}) \cup {row}], row |-> row]
  ELSE LET row == [id |-> NewId(st.summaries), articleId |-> data.articleId,
                   content |-> data.content, keyPoints |-> data.keyPoints,
                   sentiment |-> data.sentiment, category |-> data.category]
       IN  [store |-> [st EXCEPT !.summaries = @ \cup {row}],
            row |-> row]

\* JSON.stringify(value): a string that JSON.parse turns back into the value.
JsonStringify(value) == [t |-> "string", v |-> Lit("<json>"), items |-> << value >>]

StoreError == << "<store error>" >>

\* ---------------------------------------------------------------- the route

\* The request body: urls is undefined, null, a string or an array (items);
\* accountName is << >> when absent.
Body(kind, items, accountName) ==
  [kind |-> kind, items |-> items, accountName |-> accountName]

MaxUrls == 20

\* '批量导入'
DefaultAccountName == Lit("<batch import>")

AccountNameOf(b) ==
  IF b.accountName = Undefined THEN DefaultAccountName ELSE b.accountName[1]

\* '请提供有效的URL数组' and '单次最多处理20个URL'
NoUrlArray == << "provide a valid array of URLs" >>
TooManyUrls == << "at most 20 URLs at a time" >>

\* The validations without the limit.
ValidationErrorUnlimited(b) ==
  IF b.kind \in {"undefined", "null"} \/ b.kind # "array" \/ Len(b.items) = 0
  THEN Some(NoUrlArray)
  ELSE Undefined

\* The answer of the two validations: << >> when the body passes.
ValidationError(b) ==
  IF b.kind \in {"undefined", "null"} \/ b.kind # "array" \/ Len(b.items) = 0
  THEN Some(NoUrlArray)
  ELSE IF Len(b.items) > MaxUrls THEN Some(TooManyUrls)
       ELSE Undefined

\* An entry of results; summary and error are << >> when absent.
Entry(url, title, summary, error) ==
  [url |-> url, title |-> title, summary |-> summary, error |-> error]

\* `总结失败: ${error.message}`
SummaryFailure(message) == << "summary failed: " >> \o message

ErrorResponse(status, error) ==
  [status |-> status, success |-> FALSE, error |-> error, results |-> << >>,
   totalProcessed |-> 0, successCount |-> 0, failCount |-> 0]

BatchSummarizeResponse(results, totalProcessed, successCount, failCount) ==
  [status |-> 200, success |-> TRUE, error |-> << >>, results |-> results,
   totalProcessed |-> totalProcessed, successCount |-> successCount,
   failCount |-> failCount]

\* ------------------------------------------------------------------- inputs

\* Longest list of URLs of a request, apart from the shortest list of two
\* windows, the list of MaxUrls invalid links and the list of MaxUrls + 1
\* article links.
MaxLen == 2

Host == "mp.weixin.qq.com"

uA == Url("https://mp.weixin.qq.com/s/a", TRUE, Host, << "/", "s", "/", "a" >>)
uQ == Url("https://mp.weixin.qq.com/s?__biz=x&mid=y&idx=1&sn=z", TRUE, Host, << "/", "s" >>)
uH == Url("https://example.com/s/a", TRUE, "example.com", << "/", "s", "/", "a" >>)
uN == Url("not-a-url", FALSE, "", << >>)

Urls == {uA, uQ, uH, uN}

RECURSIVE SeqsUpTo(_, _)
SeqsUpTo(S, n) ==
  IF n = 0 THEN {<< >>}
  ELSE LET shorter == SeqsUpTo(S, n - 1)
       IN  shorter \cup {Append(q, x) : q \in {t \in shorter : Len(t) = n - 1}, x \in S}

Bodies ==
  {Body("array", items, Undefined) : items \in SeqsUpTo(Urls, MaxLen)}
    \cup {Body("array", << uA >>, Some(Lit("tech-daily"))),
          Body("array", [m \in 1..(concurrencyLimit + 1) |-> uA], Undefined)}
    \cup {Body("array", [m \in 1..MaxUrls |-> uH], Undefined),
          Body("array", [m \in 1..(MaxUrls + 1) |-> uA], Undefined)}
    \cup {Body(kind, << >>, Undefined) : kind \in {"undefined", "null", "string"}}

TextChild(text) == Child("#text", "", text)

\* A page with a title, an author line carrying a date, and one paragraph.
PageA ==
  << El("h1", "activity-name", {"rich_media_title"}, << TextChild(Lit("A")) >>, NoDate),
     El("span", "", {"rich_media_meta_text"}, << TextChild(Lit("author")) >>,
        DateIn(<< "2024", "5", "3" >>, << >>, << "5", "3" >>)),
     El("div", "js_content", {"rich_media_content"},
        << Child("p", "", << R("x", 60) >>) >>, NoDate) >>

\* A page without title, author and date, its text directly in the container.
PageB ==
  << El("div", "", {"rich_media_content"}, << TextChild(<< R("y", 100) >>) >>, NoDate) >>

FetchOutcomes ==
  {Response(PageA), Response(PageB),
   Thrown(TRUE, << "timeout of 20000ms exceeded" >>), Thrown(TRUE, << >>)}

JsonAnswer ==
  AiResponse(Lit("{...}"), TRUE, TRUE,
             Fields(JsString(Lit("S1")), JsArray(<< JsString(Lit("k1")) >>),
                    JsString(Lit("positive")), JsString(Lit("tech"))))

PlainAnswer ==
  AiResponse(<< R("l", 5), R("nl", 1), R("m", 3) >>, FALSE, FALSE, NoFields)

PostOutcomes == {Answer(JsonAnswer), Answer(PlainAnswer), PostThrown}

\* -------------------------------------------------------------------- state

\* The handlers that may run; those of Sequential serve one request after another.
Reqs == {1, 2}
Sequential == {1}

VARIABLES
  pc,        \* where each request's handler stands
  body,      \* the body of each request
  fetcher,   \* the locals of extractBatchWeChatArticles
  loop,      \* the locals of the route handler
  response,  \* the responses sent for each request
  store,     \* the tables
  calls,     \* per request: fetches issued, summarizer calls, store writes
  arg, ret, ret2, op   \* a function applied on its own: input, results, which

vars == << pc, body, fetcher, loop, response, store, calls, arg, ret, ret2, op >>

routeVars == << pc, body, fetcher, loop, response, store, calls >>
fnVars == << arg, ret, ret2, op >>

NoBody == Body("undefined", << >>, Undefined)

NoFetcher ==
  [validUrls |-> << >>, invalidUrls |-> << >>, results |-> << >>, i |-> 0,
   batch |-> << >>, settled |-> << >>]

NoLoop ==
  [extractedArticles |-> << >>, k |-> 1, summaryResult |-> << >>, account |-> << >>,
   savedArticle |-> << >>, results |-> << >>, successCount |-> 0, failCount |-> 0]

NoCalls == [fetched |-> << >>, summarized |-> << >>, writes |-> 0]

RouteInit ==
  /\ pc = [r \in Reqs |-> "idle"]
  /\ body = [r \in Reqs |-> NoBody]
  /\ fetcher = [r \in Reqs |-> NoFetcher]
  /\ loop = [r \in Reqs |-> NoLoop]
  /\ response = [r \in Reqs |-> << >>]
  /\ store = EmptyStore
  /\ calls = [r \in Reqs |-> NoCalls]

FnIdle == arg = << >> /\ ret = << >> /\ ret2 = << >> /\ op = "none"

Init == RouteInit /\ FnIdle

\* ------------------------------------------------------------------ actions

\* The fetches of the window at i are issued: one axios.get for each of its URLs.
StartWindow(f, i) ==
  [f EXCEPT !.i = i, !.batch = Slice(f.validUrls, i),
            !.settled = [m \in 1..Len(Slice(f.validUrls, i)) |-> << >>]]

\* extractBatchWeChatArticles returns: the handler enters its loop.
EnterLoop(r, results) ==
  /\ loop' = [loop EXCEPT ![r] = [NoLoop EXCEPT !.extractedArticles = results]]
  /\ pc' = [pc EXCEPT ![r] = "loop"]

\* router.post('/'): the validations, then extractBatchWeChatArticles up to
\* its first await.
Post(r, b) ==
  /\ pc[r] = "idle"
  /\ body' = [body EXCEPT ![r] = b]
  /\ UNCHANGED << store, fnVars >>
  /\ IF ValidationError(b) # Undefined
     THEN /\ response' = [response EXCEPT ![r] =
                            Append(@, ErrorResponse(400, ValidationError(b)[1]))]
          /\ pc' = [pc EXCEPT ![r] = "done"]
          /\ UNCHANGED << fetcher, loop, calls >>
     ELSE LET validUrls == Filter(b.items, TRUE)
              invalidUrls == Filter(b.items, FALSE)
              results == [m \in 1..Len(invalidUrls) |-> InvalidEntry(invalidUrls[m])]
              f == [NoFetcher EXCEPT !.validUrls = validUrls,
                                     !.invalidUrls = invalidUrls,
                                     !.results = results]
          IN  /\ UNCHANGED response
              /\ IF Len(validUrls) = 0
                 THEN /\ fetcher' = [fetcher EXCEPT ![r] = f]
                      /\ EnterLoop(r, results)
                      /\ UNCHANGED calls
                 ELSE /\ fetcher' = [fetcher EXCEPT ![r] = StartWindow(f, 0)]
                      /\ calls' = [calls EXCEPT ![r].fetched = @ \o Slice(validUrls, 0)]
                      /\ pc' = [pc EXCEPT ![r] = "fetching"]
                      /\ UNCHANGED loop

\* One fetch of the window ends and extractSingleWeChatArticle returns.
FetchSettle(r, m, outcome) ==
  /\ pc[r] = "fetching"
  /\ m \in 1..Len(fetcher[r].batch)
  /\ fetcher[r].settled[m] = << >>
  /\ fetcher' = [fetcher EXCEPT ![r].settled[m] =
                   Some(extractSingleWeChatArticle(fetcher[r].batch[m], outcome))]
  /\ UNCHANGED << pc, body, loop, response, store, calls, fnVars >>

\* Promise.allSettled resolves, the window's results appended last URL first.
WindowDoneReversed(r) ==
  /\ pc[r] = "fetching"
  /\ \A m \in 1..Len(fetcher[r].batch) : fetcher[r].settled[m] # << >>
  /\ LET f == fetcher[r]
         results == f.results
                      \o [m \in 1..Len(f.batch) |-> f.settled[Len(f.batch) + 1 - m][1]]
     IN  /\ fetcher' = [fetcher EXCEPT ![r].results = results]
         /\ IF f.i + concurrencyLimit < Len(f.validUrls)
            THEN /\ pc' = [pc EXCEPT ![r] = "pacing"]
                 /\ UNCHANGED loop
            ELSE EnterLoop(r, results)
  /\ UNCHANGED << body, response, store, calls, fnVars >>

\* Promise.allSettled resolves: the window's results are appended in the
\* order of its URLs; a delay follows unless the window was the last.
WindowDone(r) ==
  /\ pc[r] = "fetching"
  /\ \A m \in 1..Len(fetcher[r].batch) : fetcher[r].settled[m] # << >>
  /\ LET f == fetcher[r]
         results == f.results \o [m \in 1..Len(f.batch) |-> f.settled[m][1]]
     IN  /\ fetcher' = [fetcher EXCEPT ![r].results = results]
         /\ IF f.i + concurrencyLimit < Len(f.validUrls)
            THEN /\ pc' = [pc EXCEPT ![r] = "pacing"]
                 /\ UNCHANGED loop
            ELSE EnterLoop(r, results)
  /\ UNCHANGED << body, response, store, calls, fnVars >>

\* this.delay(3000) is over: the next window's fetches are issued.
PacingDone(r) ==
  /\ pc[r] = "pacing"
  /\ LET i == fetcher[r].i + concurrencyLimit
     IN  /\ fetcher' = [fetcher EXCEPT ![r] = StartWindow(@, i)]
         /\ calls' = [calls EXCEPT ![r].fetched = @ \o Slice(fetcher[r].validUrls, i)]
  /\ pc' = [pc EXCEPT ![r] = "fetching"]
  /\ UNCHANGED << body, loop, response, store, fnVars >>

Article(r) == loop[r].extractedArticles[loop[r].k]

\* if (article.error) { results.push(...); failCount++; continue; }
LoopError(r) ==
  /\ pc[r] = "loop"
  /\ loop[r].k <= Len(loop[r].extractedArticles)
  /\ Truthy(Article(r).error)
  /\ loop' = [loop EXCEPT
       ![r].results = Append(@, Entry(Article(r).url, Article(r).title, Undefined,
                                      Article(r).error)),
       ![r].failCount = @ + 1,
       ![r].k = @ + 1]
  /\ UNCHANGED << pc, body, fetcher, response, store, calls, fnVars >>

\* deepSeekService.summarizeArticle(article.title, article.content) is called.
LoopSummarize(r) ==
  /\ pc[r] = "loop"
  /\ loop[r].k <= Len(loop[r].extractedArticles)
  /\ ~Truthy(Article(r).error)
  /\ calls' = [calls EXCEPT ![r].summarized = Append(@, loop[r].k)]
  /\ pc' = [pc EXCEPT ![r] = "summarizing"]
  /\ UNCHANGED << body, fetcher, loop, response, store, fnVars >>

\* The catch block without failCount++.
CatchFailureUncounted(r, message) ==
  /\ loop' = [loop EXCEPT
       ![r].results = Append(@, Entry(Article(r).url, Article(r).title, Undefined,
                                      Some(SummaryFailure(message))))]
  /\ pc' = [pc EXCEPT ![r] = "delay"]

\* The catch block leaving the handler without an answer.
CatchFailureUnanswered(r, message) ==
  /\ loop' = loop
  /\ pc' = [pc EXCEPT ![r] = "aborted"]

\* The catch block leaving the loop.
CatchFailureBreak(r, message) ==
  /\ loop' = [loop EXCEPT
       ![r].results = Append(@, Entry(Article(r).url, Article(r).title, Undefined,
                                      Some(SummaryFailure(message)))),
       ![r].failCount = @ + 1,
       ![r].k = Len(loop[r].extractedArticles)]
  /\ pc' = [pc EXCEPT ![r] = "delay"]

\* The catch block going on to the next article at once.
CatchFailureNoDelay(r, message) ==
  /\ loop' = [loop EXCEPT
       ![r].results = Append(@, Entry(Article(r).url, Article(r).title, Undefined,
                                      Some(SummaryFailure(message)))),
       ![r].failCount = @ + 1,
       ![r].k = @ + 1, ![r].summaryResult = << >>,
       ![r].account = << >>, ![r].savedArticle = << >>]
  /\ pc' = [pc EXCEPT ![r] = "loop"]

\* The catch block of the loop: a failure entry, then the delay.
CatchFailure(r, message) ==
  /\ loop' = [loop EXCEPT
       ![r].results = Append(@, Entry(Article(r).url, Article(r).title, Undefined,
                                      Some(SummaryFailure(message)))),
       ![r].failCount = @ + 1]
  /\ pc' = [pc EXCEPT ![r] = "delay"]

\* The account upserted before the summarizer is awaited.
SummarizeReturnAccountFirst(r, outcome) ==
  /\ pc[r] = "summarizing"
  /\ IF summarizeArticle(outcome).ok
     THEN /\ loop' = [loop EXCEPT ![r].summaryResult =
                        Some(summarizeArticle(outcome).value)]
          /\ pc' = [pc EXCEPT ![r] = "upsertAccount"]
          /\ UNCHANGED << store, calls >>
     ELSE /\ CatchFailure(r, summarizeArticle(outcome).message)
          /\ store' = AccountUpsert(store, AccountNameOf(body[r])).store
          /\ calls' = [calls EXCEPT ![r].writes = @ + 1]
  /\ UNCHANGED << body, fetcher, response, fnVars >>

\* summarizeArticle returns or throws; on a result the account upsert is sent.
SummarizeReturn(r, outcome) ==
  /\ pc[r] = "summarizing"
  /\ IF summarizeArticle(outcome).ok
     THEN /\ loop' = [loop EXCEPT ![r].summaryResult =
                        Some(summarizeArticle(outcome).value)]
          /\ pc' = [pc EXCEPT ![r] = "upsertAccount"]
     ELSE CatchFailure(r, summarizeArticle(outcome).message)
  /\ UNCHANGED << body, fetcher, response, store, calls, fnVars >>

\* prisma.weChatAccount.upsert ends: the row, or an error of the store.
UpsertAccount(r, fails) ==
  /\ pc[r] = "upsertAccount"
  /\ IF fails
     THEN /\ CatchFailure(r, StoreError)
          /\ UNCHANGED << store, calls >>
     ELSE LET done == AccountUpsert(store, AccountNameOf(body[r]))
          IN  /\ store' = done.store
              /\ calls' = [calls EXCEPT ![r].writes = @ + 1]
              /\ loop' = [loop EXCEPT ![r].account = Some(done.row)]
              /\ pc' = [pc EXCEPT ![r] = "upsertArticle"]
  /\ UNCHANGED << body, fetcher, response, fnVars >>

\* The columns of the article upsert.
ArticleData(r) ==
  [url |-> Article(r).url.raw,
   title |-> Article(r).title,
   content |-> Article(r).content,
   publishDate |-> IF Article(r).publishDate # Undefined THEN Article(r).publishDate[1]
                   ELSE Now,
   author |-> IF Article(r).author # EmptyStr THEN Article(r).author
              ELSE AccountNameOf(body[r]),
   accountId |-> loop[r].account[1].id]

\* prisma.article.upsert ends.
UpsertArticle(r, fails) ==
  /\ pc[r] = "upsertArticle"
  /\ IF fails
     THEN /\ CatchFailure(r, StoreError)
          /\ UNCHANGED << store, calls >>
     ELSE LET done == ArticleUpsert(store, ArticleData(r))
          IN  /\ store' = done.store
              /\ calls' = [calls EXCEPT ![r].writes = @ + 1]
              /\ loop' = [loop EXCEPT ![r].savedArticle = Some(done.row)]
              /\ pc' = [pc EXCEPT ![r] = "upsertSummary"]
  /\ UNCHANGED << body, fetcher, response, fnVars >>

\* The columns of the summary upsert.
SummaryData(r) ==
  [articleId |-> loop[r].savedArticle[1].id,
   content |-> loop[r].summaryResult[1].content,
   keyPoints |-> JsonStringify(loop[r].summaryResult[1].keyPoints),
   sentiment |-> loop[r].summaryResult[1].sentiment,
   category |-> loop[r].summaryResult[1].category]

\* The summary of a success entry.
SummaryPayload(result) ==
  [summary |-> result.content, keyPoints |-> result.keyPoints,
   sentiment |-> result.sentiment, category |-> result.category]

\* prisma.summary.upsert ends; on success the entry is pushed and counted.
UpsertSummary(r, fails) ==
  /\ pc[r] = "upsertSummary"
  /\ IF fails
     THEN /\ CatchFailure(r, StoreError)
          /\ UNCHANGED << store, calls >>
     ELSE /\ store' = SummaryUpsert(store, SummaryData(r)).store
          /\ calls' = [calls EXCEPT ![r].writes = @ + 1]
          /\ loop' = [loop EXCEPT
               ![r].results = Append(@, Entry(Article(r).url, Article(r).title,
                                Some(SummaryPayload(loop[r].summaryResult[1])),
                                Undefined)),
               ![r].successCount = @ + 1]
          /\ pc' = [pc EXCEPT ![r] = "delay"]
  /\ UNCHANGED << body, fetcher, response, fnVars >>

\* The delay of 1000 ms is over: the next article.
DelayDone(r) ==
  /\ pc[r] = "delay"
  /\ loop' = [loop EXCEPT ![r].k = @ + 1, ![r].summaryResult = << >>,
                          ![r].account = << >>, ![r].savedArticle = << >>]
  /\ pc' = [pc EXCEPT ![r] = "loop"]
  /\ UNCHANGED << body, fetcher, response, store, calls, fnVars >>

\* The loop is over: res.json(response).
LoopExit(r) ==
  /\ pc[r] = "loop"
  /\ loop[r].k > Len(loop[r].extractedArticles)
  /\ response' = [response EXCEPT ![r] =
       Append(@, BatchSummarizeResponse(loop[r].results, Len(body[r].items),
                                        loop[r].successCount, loop[r].failCount))]
  /\ pc' = [pc EXCEPT ![r] = "done"]
  /\ UNCHANGED << body, fetcher, loop, store, calls, fnVars >>

\* The handler has returned and its locals are gone; the next request may come.
Close(r) ==
  /\ pc[r] = "done"
  /\ pc' = [pc EXCEPT ![r] = "idle"]
  /\ body' = [body EXCEPT ![r] = NoBody]
  /\ fetcher' = [fetcher EXCEPT ![r] = NoFetcher]
  /\ loop' = [loop EXCEPT ![r] = NoLoop]
  /\ response' = [response EXCEPT ![r] = << >>]
  /\ calls' = [calls EXCEPT ![r] = NoCalls]
  /\ UNCHANGED << store, fnVars >>

\* A step of the handler after it was entered.
Step(r) ==
  \/ \E m \in 1..concurrencyLimit, outcome \in FetchOutcomes : FetchSettle(r, m, outcome)
  \/ WindowDone(r)
  \/ PacingDone(r)
  \/ LoopError(r)
  \/ LoopSummarize(r)
  \/ \E outcome \in PostOutcomes : SummarizeReturn(r, outcome)
  \/ \E fails \in BOOLEAN : UpsertAccount(r, fails)
  \/ \E fails \in BOOLEAN : UpsertArticle(r, fails)
  \/ \E fails \in BOOLEAN : UpsertSummary(r, fails)
  \/ DelayDone(r)
  \/ LoopExit(r)

Next ==
  \E r \in Sequential :
    \/ \E b \in Bodies : Post(r, b)
    \/ Step(r)
    \/ Close(r)

Spec == Init /\ [][Next]_vars

\* One request, from the empty store: every external call returns or
\* fails and every timer fires.
LiveNext ==
  \E r \in Sequential :
    \/ \E b \in Bodies : Post(r, b)
    \/ Step(r)

LiveSpec == Init /\ [][LiveNext]_vars /\ \A r \in Sequential : WF_vars(Step(r))

\* ------------------------------------------- the Content Cleaner on its own

CleanCounts == {1, 2, maxContentLength - 1, maxContentLength, maxContentLength + 1}

CleanRuns == {R(k, n) : k \in {"x", "sp", "nl"}, n \in CleanCounts}

\* The texts of at most MaxRuns runs.
CleanInputs ==
  {s \in SeqsUpTo(CleanRuns, MaxRuns) : \A m \in 1..(Len(s) - 1) : s[m].k # s[m + 1].k}

InitClean ==
  /\ RouteInit
  /\ arg \in CleanInputs
  /\ ret = << >> /\ ret2 = << >> /\ op = "content"

CleanOnce ==
  /\ op = "content"
  /\ ret' = cleanContent(arg)
  /\ op' = "cleaned"
  /\ UNCHANGED << arg, ret2, routeVars >>

CleanTwice ==
  /\ op = "cleaned"
  /\ ret2' = cleanContent(ret)
  /\ op' = "cleaned twice"
  /\ UNCHANGED << arg, ret, routeVars >>

NextClean == CleanOnce \/ CleanTwice

SpecClean == InitClean /\ [][NextClean]_vars

\* -------------------------------------------- the Page Extractor on its own

\* Most children of the content element of a page extracted on its own.
MaxChildren == 2

ExtractTexts ==
  {<< R("x", n) >> : n \in {MinParagraphLength, MinParagraphLength + 1,
                            MinContentLength - 3, MinContentLength - 2,
                            MinContentLength - 1, MinContentLength}}
    \cup {<< R("x", 30), R("sp", 30), R("x", 30) >>, << R("sp", 60) >>}

ExtractChildren ==
  {Child(tag, "", text) : tag \in {"p", "#text", "script"}, text \in ExtractTexts}

ExtractPages ==
  {<< El("div", "js_content", {}, children, NoDate) >> :
      children \in SeqsUpTo(ExtractChildren, MaxChildren)}
    \cup {<< >>}

\* The elements a page offers to the second selector of each list: a title
\* that is no h1, a nickname, a meta line that carries a date, a container.
SecondSelectorElements ==
  {El("h2", "", {"rich_media_title"}, << TextChild(Lit("T2")) >>, NoDate),
   El("a", "", {"profile_nickname"}, << TextChild(Lit("nick")) >>, NoDate),
   El("em", "", {"rich_media_meta_text"}, << TextChild(Lit("2024-05-03")) >>,
      DateIn(<< >>, << "2024", "05", "03" >>, << >>)),
   El("div", "", {"rich_media_content"}, << Child("p", "", << R("z", 60) >>) >>, NoDate)}

\* The pages made of some of these elements, in any order.
SecondSelectorPages ==
  {q \in SeqsUpTo(SecondSelectorElements, 4) :
     \A m, n \in DOMAIN q : m # n => q[m] # q[n]}

ExtractInputs ==
  {Response(page) : page \in ExtractPages \cup SecondSelectorPages}
    \cup {Thrown(TRUE, << "Network Error" >>), Thrown(TRUE, << >>), Thrown(FALSE, << >>)}

InitExtract ==
  /\ RouteInit
  /\ arg \in ExtractInputs
  /\ ret = << >> /\ ret2 = << >> /\ op = "fetched"

ExtractOnce ==
  /\ op = "fetched"
  /\ ret' = extractSingleWeChatArticle(uA, arg)
  /\ op' = "extracted"
  /\ UNCHANGED << arg, ret2, routeVars >>

NextExtract == ExtractOnce

SpecExtract == InitExtract /\ [][NextExtract]_vars

\* ---------------------------------------- the response parser on its own

SummaryValues == {JsUndefined, JsNull, JsString(EmptyStr), JsString(Lit("S")), JsNumber(Lit("5"))}

KeyPointsValues ==
  {JsUndefined, JsArray(<< >>), JsArray(<< JsString(Lit("k1")), JsString(Lit("k2")) >>),
   JsArray(<< JsString(Lit("k1")), JsNumber(Lit("5")) >>), JsString(Lit("k1, k2"))}

SentimentValues ==
  {JsUndefined, JsString(EmptyStr), JsString(Lit("positive")), JsString(Lit("negative")),
   JsString(Lit("neutral")), JsString(Lit("mixed"))}

CategoryValues == {JsUndefined, JsString(EmptyStr), JsString(Lit("tech")), JsArray(<< >>)}

PlainTexts ==
  {EmptyStr, << R("l", 5) >>, << R("l", 5), R("nl", 1), R("m", 3) >>,
   << R("nl", 2), R("l", 150), R("nl", 3), R("sp", 2), R("nl", 1), R("m", 150),
      R("nl", 1), R("n", 4), R("nl", 1), R("o", 4) >>}

ParseInputs ==
  {AiResponse(Lit("{...}"), TRUE, TRUE, Fields(a, b, c, d)) :
      a \in SummaryValues, b \in KeyPointsValues, c \in SentimentValues,
      d \in CategoryValues}
    \cup {AiResponse(text, FALSE, FALSE, NoFields) : text \in PlainTexts}
    \cup {AiResponse(Lit("{...}"), TRUE, FALSE, NoFields)}

InitParse ==
  /\ RouteInit
  /\ arg \in ParseInputs
  /\ ret = << >> /\ ret2 = << >> /\ op = "answered"

ParseOnce ==
  /\ op = "answered"
  /\ ret' = parseSummaryResponse(arg)
  /\ op' = "parsed"
  /\ UNCHANGED << arg, ret2, routeVars >>

\* summarizeArticle whose axios.post was answered with the text.
SummarizeOnce ==
  /\ op = "answered"
  /\ ret' = summarizeArticle(Answer(arg))
  /\ op' = "summarized"
  /\ UNCHANGED << arg, ret2, routeVars >>

NextParse == ParseOnce \/ SummarizeOnce

SpecParse == InitParse /\ [][NextParse]_vars

\* ------------------------------------------------------ two requests at once

\* Each of the two requests carries the one article link.
ConcurrentBodies == {Body("array", << uA >>, Undefined)}

\* The two handlers share the store and take their steps in any order; a
\* list of one link has one window, so no pacing delay is awaited.
ConcurrentNext ==
  \E r \in Reqs :
    \/ \E b \in ConcurrentBodies : Post(r, b)
    \/ \E m \in 1..concurrencyLimit, outcome \in FetchOutcomes : FetchSettle(r, m, outcome)
    \/ WindowDone(r)
    \/ LoopError(r)
    \/ LoopSummarize(r)
    \/ \E outcome \in PostOutcomes : SummarizeReturn(r, outcome)
    \/ \E fails \in BOOLEAN : UpsertAccount(r, fails)
    \/ \E fails \in BOOLEAN : UpsertArticle(r, fails)
    \/ \E fails \in BOOLEAN : UpsertSummary(r, fails)
    \/ DelayDone(r)
    \/ LoopExit(r)

SpecConcurrent == Init /\ [][ConcurrentNext]_vars

\* --------------------------------------------------- batchSummarize on its own

\* The articles handed to batchSummarize, by their ids: lists without
\* repetition (title and content only go into the prompt).
BatchInputs ==
  {q \in SeqsUpTo({"a1", "a2", "a3"}, MaxLen + 1) :
     \A m, n \in DOMAIN q : m # n => q[m] # q[n]}

\* arg holds the articles, ret the Map results as the set of its entries,
\* ret2 the place in the loop and what was done so far, op the position.
InitBatch ==
  /\ RouteInit
  /\ arg \in BatchInputs
  /\ ret = {}
  /\ ret2 = [k |-> 1, log |-> << >>]
  /\ op = "batch"

Event(e, id) == [e |-> e, id |-> id]

\* this.summarizeArticle(article.title, article.content) is called.
BatchCall ==
  /\ op = "batch"
  /\ ret2.k <= Len(arg)
  /\ ret2' = [ret2 EXCEPT !.log = Append(@, Event("call", arg[ret2.k]))]
  /\ op' = "batch summarizing"
  /\ UNCHANGED << arg, ret, routeVars >>

\* The call returns: results.set and the delay; or it throws: the catch
\* block, and the next article.
BatchSummarizeReturn(outcome) ==
  /\ op = "batch summarizing"
  /\ IF summarizeArticle(outcome).ok
     THEN /\ ret' = {x \in ret : x.id # arg[ret2.k]}
                      \cup {[id |-> arg[ret2.k], value |-> summarizeArticle(outcome).value]}
          /\ ret2' = [ret2 EXCEPT !.log = Append(@, Event("set", arg[ret2.k]))]
          /\ op' = "batch delay"
     ELSE /\ ret' = ret
          /\ ret2' = [ret2 EXCEPT !.log = Append(@, Event("failed", arg[ret2.k])),
                                  !.k = @ + 1]
          /\ op' = "batch"
  /\ UNCHANGED << arg, routeVars >>

\* The delay of 1000 ms is over: the next article.
BatchDelayDone ==
  /\ op = "batch delay"
  /\ ret2' = [ret2 EXCEPT !.log = Append(@, Event("delay", arg[ret2.k])), !.k = @ + 1]
  /\ op' = "batch"
  /\ UNCHANGED << arg, ret, routeVars >>

\* return results
BatchReturn ==
  /\ op = "batch"
  /\ ret2.k > Len(arg)
  /\ op' = "batch returned"
  /\ UNCHANGED << arg, ret, ret2, routeVars >>

NextBatch ==
  \/ BatchCall
  \/ \E outcome \in PostOutcomes : BatchSummarizeReturn(outcome)
  \/ BatchDelayDone
  \/ BatchReturn

SpecBatch == InitBatch /\ [][NextBatch]_vars

\* -------------------------------------------------------- the history route

DefaultPage == 1
DefaultLimit == 20

\* req.query of GET /history: page and limit as parseInt reads them, << >>
\* when the parameter is absent or no number.
Query(page, limit) == [page |-> page, limit |-> limit]

\* parseInt(...) || fallback: 0 and NaN give the fallback.
ParsedOr(param, fallback) ==
  IF param = << >> \/ param[1] = 0 THEN fallback ELSE param[1]

\* orderBy: { createdAt: 'desc' }: rows are created in the order of their ids.
RECURSIVE NewestFirst(_)
NewestFirst(rows) ==
  IF rows = {} THEN << >>
  ELSE LET x == CHOOSE x \in rows : \A y \in rows : y.id <= x.id
       IN  << x >> \o NewestFirst(rows \ {x})

\* JSON.parse of a string that JSON.stringify made.
JsonParse(string) == string.items[1]

\* The articles of the account named '批量导入', newest first, with their
\* summaries.
BatchImported(st) ==
  NewestFirst({a \in st.articles :
                 \E acc \in st.accounts :
                   acc.id = a.accountId /\ acc.name = DefaultAccountName})

HistoryItem(st, article) ==
  [id |-> article.id, title |-> article.title, url |-> article.url,
   author |-> article.author, publishDate |-> article.publishDate,
   summary |-> IF \E x \in st.summaries : x.articleId = article.id
               THEN LET x == CHOOSE x \in st.summaries : x.articleId = article.id
                    IN  Some([summary |-> x.content, keyPoints |-> JsonParse(x.keyPoints),
                              sentiment |-> x.sentiment, category |-> x.category])
               ELSE Undefined]

\* The answer of GET /history.
HistoryResponse(st, query) ==
  LET page == ParsedOr(query.page, DefaultPage)
      limit == ParsedOr(query.limit, DefaultLimit)
      skip == (page - 1) * limit
      all == BatchImported(st)
      last == IF skip + limit < Len(all) THEN skip + limit ELSE Len(all)
      taken == SubSeq(all, skip + 1, last)
  IN  [success |-> TRUE,
       data |-> [m \in 1..Len(taken) |-> HistoryItem(st, taken[m])],
       pagination |-> [page |-> page, limit |-> limit, total |-> Len(all),
                       pages |-> (Len(all) + limit - 1) \div limit]]

uB == Url("https://mp.weixin.qq.com/s/b", TRUE, Host, << "/", "s", "/", "b" >>)

\* The request imports two or three articles, invalid links among them,
\* under the default account or under a name of its own.
HistoryBodies ==
  {Body("array", items, name) :
     items \in {<< uA, uB >>, << uH >>},
     name \in {Undefined, Some(Lit("tech-daily"))}}
    \cup {Body("array", << uA, uB, uA >>, Undefined),
          Body("array", << uB, uH, uA, uN >>, Undefined)}

HistoryQueries ==
  {Query(page, limit) : page \in {<< >>, << 0 >>, << 2 >>, << 3 >>},
                        limit \in {<< >>, << 1 >>}}

\* router.get('/history')
GetHistory(query) ==
  /\ arg' = query
  /\ ret' = HistoryResponse(store, query)
  /\ op' = "history"
  /\ UNCHANGED << ret2, routeVars >>

\* One import into the empty store, and the history read before it and
\* after it was answered.
HistoryNext ==
  \/ \E r \in Sequential :
       \/ \E b \in HistoryBodies : Post(r, b)
       \/ Step(r)
  \/ /\ \A r \in Sequential : pc[r] \in {"idle", "done"}
     /\ \E query \in HistoryQueries : GetHistory(query)

SpecHistory == Init /\ [][HistoryNext]_vars

\* ------------------------------------------------------------------- claims

\* The urls of a body are missing, no list, empty or more than 20.
BadUrls(b) == b.kind # "array" \/ Len(b.items) = 0 \/ Len(b.items) > 20

\* The handler of r stands at its end, its request having passed validation.
Finished(r) == pc[r] = "done" /\ ~BadUrls(body[r])

Occurrences(urls, u) == Cardinality({m \in DOMAIN urls : urls[m] = u})

\* C1: the response of a request that passed validation has
\* successCount + failCount = totalProcessed = number of input URLs = length
\* of results.
C1_CountsAddUp ==
  \A r \in Reqs :
    Finished(r) =>
      /\ Len(response[r]) = 1
      /\ LET resp == response[r][1]
         IN  /\ resp.successCount + resp.failCount = resp.totalProcessed
             /\ resp.totalProcessed = Len(body[r].items)
             /\ Len(resp.results) = Len(body[r].items)

\* A duplicated article link, one copy summarized and the other failed.
C1_Witness ==
  \E r \in Reqs :
    /\ Finished(r)
    /\ body[r].items = << uA, uA >>
    /\ response[r][1].successCount = 1
    /\ response[r][1].failCount = 1

\* The validity predicate in the words of the claim.
InvalidLink(u) ==
  \/ ~u.parses
  \/ u.hostname # "mp.weixin.qq.com"
  \/ ~(Len(u.pathname) >= 3 /\ SubSeq(u.pathname, 1, 3) = << "/", "s", "/" >>)

\* C2: an input URL that does not parse, has another host or a path that
\* does not start with /s/ is never fetched, and the response holds for each
\* of its occurrences one entry, a failure with the fixed reason.
C2_InvalidLinksFailUnfetched ==
  \A r \in Reqs :
    (pc[r] # "idle" /\ ~BadUrls(body[r])) =>
      \A m \in DOMAIN body[r].items :
        LET u == body[r].items[m]
        IN  InvalidLink(u) =>
              /\ \A n \in DOMAIN calls[r].fetched : calls[r].fetched[n] # u
              /\ pc[r] = "done" =>
                   LET res == response[r][1].results
                   IN  /\ Cardinality({n \in DOMAIN res : res[n].url = u})
                            = Occurrences(body[r].items, u)
                       /\ \A n \in DOMAIN res :
                            res[n].url = u =>
                              /\ res[n].error = Some(InvalidLinkReason)
                              /\ res[n].summary = Undefined

\* A link whose path is /s beside an article link that was fetched.
C2_Witness ==
  \E r \in Reqs :
    /\ Finished(r)
    /\ body[r].items = << uQ, uA >>
    /\ calls[r].fetched = << uA >>

\* C3: a request whose urls are missing, no list, empty or more than 20 is
\* answered with status 400 and nothing else: no fetch, no summarizer call,
\* no store write.
C3_RejectedBeforeWork ==
  \A r \in Reqs :
    (pc[r] # "idle" /\ BadUrls(body[r])) =>
      /\ pc[r] = "done"
      /\ Len(response[r]) = 1
      /\ response[r][1].status = 400
      /\ ~response[r][1].success
      /\ calls[r] = NoCalls

\* A list of 21 article links was rejected.
C3_Witness ==
  \E r \in Reqs :
    /\ pc[r] = "done"
    /\ body[r].kind = "array"
    /\ Len(body[r].items) = 21
    /\ \A m \in DOMAIN body[r].items : ~InvalidLink(body[r].items[m])

\* The answer of a request that passed validation: success with results.
Answered(r) ==
  /\ pc[r] = "done"
  /\ Len(response[r]) = 1
  /\ response[r][1].status = 200
  /\ response[r][1].success
  /\ Len(response[r][1].results) = Len(body[r].items)

\* C4: a request that passed validation is answered in the end, once, with
\* success and its results, whatever fails on the way.
C4_AlwaysAnswered ==
  \A r \in Sequential :
    /\ (pc[r] \notin {"idle", "done"}) ~> Answered(r)
    /\ [](Len(response[r]) <= 1)
    /\ []((pc[r] = "done" /\ ~BadUrls(body[r])) => Answered(r))

\* An answer holding a fetch failure and a failure of the store.
C4_Witness ==
  \E r \in Sequential :
    /\ Answered(r)
    /\ \E n \in DOMAIN response[r][1].results :
         response[r][1].results[n].error = Some(SummaryFailure(StoreError))
    /\ \E n \in DOMAIN response[r][1].results :
         response[r][1].results[n].error = Some(<< "timeout of 20000ms exceeded" >>)

\* C5: at the end every article the summarizer was called for has its entry,
\* a summary or a failure that carries 'summary failed: ...', and the
\* summarizer was called once for every extraction result without error,
\* also for those that follow a failed one.
C5_FailureDoesNotAbort ==
  \A r \in Reqs :
    Finished(r) =>
      /\ Len(loop[r].results) = Len(loop[r].extractedArticles)
      /\ \A j \in DOMAIN loop[r].extractedArticles :
           LET a == loop[r].extractedArticles[j]
               e == loop[r].results[j]
           IN  /\ e.url = a.url
               /\ ~Truthy(a.error) =>
                    /\ Occurrences(calls[r].summarized, j) = 1
                    /\ \/ e.summary # Undefined /\ e.error = Undefined
                       \/ /\ e.summary = Undefined
                          /\ e.error # Undefined
                          /\ Len(e.error[1]) >= 2
                          /\ e.error[1][1] = "summary failed: "

\* The first article failed in the summarizer, the second in the store, and
\* the third was summarized and stored.
C5_Witness ==
  \E r \in Reqs :
    /\ Finished(r)
    /\ Len(loop[r].results) = 3
    /\ loop[r].results[1].error = Some(SummaryFailure(SummarizeFailed))
    /\ loop[r].results[2].error = Some(SummaryFailure(StoreError))
    /\ loop[r].results[3].summary # Undefined

\* An article upsert of r has just ended well.
ArticleSaved(r) == pc[r] = "upsertArticle" /\ pc'[r] = "upsertSummary"

\* A summary upsert of r has just ended well.
SummarySaved(r) ==
  pc[r] = "upsertSummary" /\ loop'[r].successCount = loop[r].successCount + 1

\* C6: the store never holds two Articles of one URL nor two Summaries of
\* one Article; saving an article whose URL is stored adds no row and leaves
\* the row with the new title, content, date, author and account, and saving
\* its summary adds no row and leaves the new summary.
C6_UpsertOnUrl ==
  /\ [](\A a1, a2 \in store.articles : a1.url = a2.url => a1 = a2)
  /\ [](\A s1, s2 \in store.summaries : s1.articleId = s2.articleId => s1 = s2)
  /\ [][\A r \in Reqs :
          ArticleSaved(r) =>
            /\ (\E a \in store.articles : a.url = Article(r).url.raw)
                 => Cardinality(store'.articles) = Cardinality(store.articles)
            /\ \E a \in store'.articles :
                 /\ a.url = Article(r).url.raw
                 /\ a.title = Article(r).title
                 /\ a.content = Article(r).content
                 /\ a.publishDate \in {Now} \cup {d : d \in {Article(r).publishDate[m] :
                                                    m \in DOMAIN Article(r).publishDate}}
                 /\ a.author \in {Article(r).author, AccountNameOf(body[r])}
                 /\ a.accountId = loop[r].account[1].id
                 /\ loop'[r].savedArticle = Some(a)]_vars
  /\ [][\A r \in Reqs :
          SummarySaved(r) =>
            /\ (\E x \in store.summaries : x.articleId = loop[r].savedArticle[1].id)
                 => Cardinality(store'.summaries) = Cardinality(store.summaries)
            /\ \E x \in store'.summaries :
                 /\ x.articleId = loop[r].savedArticle[1].id
                 /\ x.content = loop[r].summaryResult[1].content
                 /\ x.sentiment = loop[r].summaryResult[1].sentiment
                 /\ x.category = loop[r].summaryResult[1].category]_vars

\* The link was stored with the title A and is now stored, in the same row
\* and the only one, without title.
C6_Witness ==
  \E r \in Reqs :
    /\ pc[r] = "upsertSummary"
    /\ body[r].items = << uA, uA >>
    /\ loop[r].k = 2
    /\ loop[r].results[1].summary # Undefined
    /\ loop[r].results[1].title = Lit("A")
    /\ loop[r].savedArticle[1].title = Untitled
    /\ store.articles = {loop[r].savedArticle[1]}
    /\ Cardinality(store.summaries) = 1

\* C7: cleaning a cleaned text changes nothing.
C7_CleanIdempotent == op = "cleaned twice" => ret2 = ret

\* C8: content of less than 50 characters makes the extraction an error
\* result, and no result without an error has content of less than 50
\* characters.
C8_NoShortContent ==
  op = "extracted" =>
    /\ (arg.kind = "response" /\ StrLen(extractContent(arg.page)) < 50)
         => Truthy(ret.error)
    /\ ret.error = Undefined => StrLen(ret.content) >= 50

\* C9: every extraction result has either content or an error that the
\* handler reads as one, never both and never neither, and the summarizer is
\* never called for a result without content.
C9_ContentOrError ==
  \A r \in Reqs :
    /\ \A j \in DOMAIN loop[r].extractedArticles :
         (loop[r].extractedArticles[j].content # EmptyStr)
           # Truthy(loop[r].extractedArticles[j].error)
    /\ \A n \in DOMAIN calls[r].summarized :
         loop[r].extractedArticles[calls[r].summarized[n]].content # EmptyStr

IsJsString(x) == x.t = "string"

\* C10: a parsed SummaryResult has a string as summary, a list of strings as
\* key points, a non-empty string as category and positive, negative or
\* neutral as sentiment.
C10_FullyPopulated ==
  op = "parsed" =>
    /\ IsJsString(ret.content)
    /\ ret.keyPoints.t = "array"
    /\ \A m \in DOMAIN ret.keyPoints.items : IsJsString(ret.keyPoints.items[m])
    /\ IsJsString(ret.category) /\ ret.category.v # EmptyStr
    /\ IsJsString(ret.sentiment)
    /\ ret.sentiment.v \in {Lit("positive"), Lit("negative"), Lit("neutral")}

\* The lines of a text that are not blank, in their order.
NonBlankLines(text) == NonBlank(SplitLinesFrom(text, 1, EmptyStr))

\* The answer holds no brace-delimited stretch, or one JSON.parse rejects.
NoParseableJson(a) == ~a.match \/ ~a.parses

SecondSelectors ==
  {titleSelectors[2], authorSelectors[2], dateSelectors[2], contentSelectors[2]}

\* The second selector of the list finds an element, and no other selector of
\* the list does, unless it is the second selector of one of the other lists
\* ('.rich_media_meta_text' is the second of the dates and the first of the
\* authors, so no page keeps it from the authors and offers it to the dates).
OnlySecond(page, selectors) ==
  /\ First(page, selectors[2]) # << >>
  /\ \A i \in DOMAIN selectors \ {2} :
       selectors[i] \notin SecondSelectors => First(page, selectors[i]) = << >>

OnlySecondOfEach(page) ==
  /\ OnlySecond(page, titleSelectors)
  /\ OnlySecond(page, authorSelectors)
  /\ OnlySecond(page, dateSelectors)
  /\ OnlySecond(page, contentSelectors)

Listed(st, article, query) ==
  \E m \in DOMAIN HistoryResponse(st, query).data :
    LET item == HistoryResponse(st, query).data[m]
    IN  /\ item.url = article.url
        /\ item.summary # Undefined
        /\ \E x \in st.summaries :
             x.articleId = article.id /\ item.summary[1].summary = x.content

\* C13: every stored article that has its summary is listed, with it, on
\* some page of the history, under whatever account name it was imported.
C13_HistoryShowsAll ==
  \A a \in store.articles :
    (\E x \in store.summaries : x.articleId = a.id) =>
      \E page \in 1..Cardinality(store.articles) :
        Listed(store, a, Query(<< page >>, << 1 >>))

\* The fetches of r that were issued and have not ended.
InFlight(r) ==
  LET f == fetcher[r]
      appended == Len(f.results) - Len(f.invalidUrls)
      settledNow == Cardinality({m \in DOMAIN f.settled : f.settled[m] # << >>})
  IN  Len(calls[r].fetched)
        - (IF pc[r] = "fetching" THEN appended + settledNow ELSE appended)

\* A step in which r issues fetches.
IssuesFetches(r) == Len(calls'[r].fetched) > Len(calls[r].fetched)

\* C14: at most 2 fetches are in flight; fetches are issued, at most 2 at a
\* time and in the order of the valid URLs, only when no fetch is in flight
\* and, after the first window, only as the pacing delay ends; the delay is
\* entered only while URLs are left to fetch, and is entered whenever some are.
C14_WindowsInTurn ==
  /\ [](\A r \in Reqs : InFlight(r) \in 0..2)
  /\ [][\A r \in Reqs :
          IssuesFetches(r) =>
            /\ InFlight(r) = 0
            /\ Len(calls[r].fetched) > 0 => pc[r] = "pacing"
            /\ Len(calls'[r].fetched) - Len(calls[r].fetched) <= 2
            /\ calls'[r].fetched
                 = SubSeq(fetcher'[r].validUrls, 1, Len(calls'[r].fetched))]_vars
  /\ [][\A r \in Reqs :
          (pc[r] # "pacing" /\ pc'[r] = "pacing") =>
            Len(calls[r].fetched) < Len(fetcher[r].validUrls)]_vars
  /\ [][\A r \in Reqs :
          (pc[r] = "fetching" /\ pc'[r] = "loop") =>
            Len(calls[r].fetched) = Len(fetcher[r].validUrls)]_vars

\* The second window of three article links: its one fetch is in flight,
\* the two of the first window have ended.
C14_Witness ==
  \E r \in Reqs :
    /\ pc[r] = "fetching"
    /\ Len(fetcher[r].validUrls) = 3
    /\ Len(calls[r].fetched) = 3
    /\ InFlight(r) = 1
    /\ Len(fetcher[r].results) = 2

ValidLink(u) == ~InvalidLink(u)

\* The invalid links of the list in their order, then the valid ones in theirs.
InvalidThenValid(urls) == SelectSeq(urls, InvalidLink) \o SelectSeq(urls, ValidLink)

UrlsOf(entries) == [m \in DOMAIN entries |-> entries[m].url]

\* C15: the fetcher's results are the failure entries of the invalid links
\* in input order, then one entry for each valid link in input order,
\* whichever fetch of a window ends first; the handler's results keep that
\* order.
C15_OutputOrder ==
  \A r \in Reqs :
    (pc[r] # "idle" /\ ~BadUrls(body[r])) =>
      LET expected == InvalidThenValid(body[r].items)
          bad == Len(SelectSeq(body[r].items, InvalidLink))
      IN  /\ Len(fetcher[r].results) >= bad
          /\ UrlsOf(fetcher[r].results) = SubSeq(expected, 1, Len(fetcher[r].results))
          /\ \A m \in 1..bad : fetcher[r].results[m].error = Some(InvalidLinkReason)
          /\ pc[r] \notin {"fetching", "pacing"} =>
               /\ UrlsOf(loop[r].extractedArticles) = expected
               /\ UrlsOf(loop[r].results) = SubSeq(expected, 1, Len(loop[r].results))
          /\ pc[r] = "done" => UrlsOf(response[r][1].results) = expected

\* Two article links among invalid ones: the fetch of the second has ended
\* before that of the first, the entries of the invalid links are in place.
C15_Witness ==
  \E r \in Reqs :
    /\ body[r].items = << uB, uH, uA, uN >>
    /\ pc[r] = "fetching"
    /\ fetcher[r].settled[1] = << >>
    /\ fetcher[r].settled[2] # << >>
    /\ UrlsOf(fetcher[r].results) = << uH, uN >>

\* The handler of r is between the summarizer call for an article and the
\* end of the delay that follows it.
Processing(r) ==
  pc[r] \in {"summarizing", "upsertAccount", "upsertArticle", "upsertSummary", "delay"}

\* The summarizer calls and upserts of r go article by article: the calls
\* made so far are in the order of the articles, none for an article after
\* the current one, and one for the current article exactly while it is
\* being processed.
OneArticleAtATime(r) ==
  LET done == calls[r].summarized
  IN  /\ \A n \in DOMAIN done : done[n] <= loop[r].k
      /\ \A n, o \in DOMAIN done : n < o => done[n] < done[o]
      /\ pc[r] = "loop" => \A n \in DOMAIN done : done[n] < loop[r].k
      /\ Processing(r) => (done # << >> /\ done[Len(done)] = loop[r].k)
      /\ (calls[r].writes > 0 /\ pc[r] # "done") => done # << >>

\* C16: the summarizer is never called for an extraction result that has an
\* error and, at the end, was called exactly once for each result that has
\* none; no call is made while fetches are under way or to come; calls and
\* upserts go one article at a time.
C16_SummarizerInTurn ==
  \A r \in Reqs :
    /\ \A n \in DOMAIN calls[r].summarized :
         loop[r].extractedArticles[calls[r].summarized[n]].error = Undefined
    /\ Finished(r) =>
         \A j \in DOMAIN loop[r].extractedArticles :
           loop[r].extractedArticles[j].error = Undefined
             => Occurrences(calls[r].summarized, j) = 1
    /\ pc[r] \in {"fetching", "pacing"} => calls[r].summarized = << >>
    /\ calls[r].summarized # << >> =>
         (InFlight(r) = 0 /\ Len(calls[r].fetched) = Len(fetcher[r].validUrls))
    /\ OneArticleAtATime(r)

\* The summarizer call for the current article of r, or one of its upserts,
\* is under way.
AtWork(r) ==
  pc[r] \in {"summarizing", "upsertAccount", "upsertArticle", "upsertSummary"}

CallsIn(log) == {n \in DOMAIN log : log[n].e = "call"}

\* C18: batchSummarize calls the summarizer for one article at a time, in
\* the order of the list; between two calls that follow one another a delay
\* of 1000 ms has passed, also when the earlier one failed; the mapping
\* returned holds the ids whose call returned and no id whose call failed.
C18_BatchPaced ==
  \/ op \notin {"batch", "batch summarizing", "batch delay", "batch returned"}
  \/ LET log == ret2.log
     IN  /\ \A n, o \in CallsIn(log) :
              (n < o /\ \A j \in CallsIn(log) : ~(n < j /\ j < o)) =>
                /\ \E d \in (n + 1)..(o - 1) : log[d].e = "delay"
                /\ \E d \in (n + 1)..(o - 1) : log[d].e \in {"set", "failed"}
         /\ [n \in 1..Cardinality(CallsIn(log)) |->
               log[CHOOSE c \in CallsIn(log) :
                     Cardinality({j \in CallsIn(log) : j <= c}) = n].id]
              = SubSeq(arg, 1, Cardinality(CallsIn(log)))
         /\ \A x \in ret : \E n \in DOMAIN log : log[n] = Event("set", x.id)
         /\ \A n \in DOMAIN log :
              /\ log[n].e = "failed" => \A x \in ret : x.id # log[n].id
              /\ log[n].e = "set" => \E x \in ret : x.id = log[n].id
         /\ op = "batch returned" => Cardinality(CallsIn(log)) = Len(arg)

\* C19: a link of the form the input form shows as its example, host
\* mp.weixin.qq.com, path /s and the parameters in the query, is fetched and
\* is not answered as an invalid link.
C19_ExampleLinkAccepted ==
  \A r \in Reqs :
    Finished(r) =>
      \A m \in DOMAIN body[r].items :
        (/\ body[r].items[m].parses
         /\ body[r].items[m].hostname = "mp.weixin.qq.com"
         /\ body[r].items[m].pathname = << "/", "s" >>) =>
          /\ \E n \in DOMAIN calls[r].fetched : calls[r].fetched[n] = body[r].items[m]
          /\ \A n \in DOMAIN response[r][1].results :
               response[r][1].results[n].url = body[r].items[m]
                 => response[r][1].results[n].error # Some(InvalidLinkReason)

\* The entries of articles whose summarizer call returned: those with a
\* summary and those that failed in the store.
PassedSummarization(entries) ==
  {n \in DOMAIN entries :
     entries[n].summary # Undefined \/ entries[n].error = Some(SummaryFailure(StoreError))}

\* C20: the step in which the summarizer call fails writes nothing; the
\* store changes only in an upsert for an article whose summary was
\* returned; between articles the handler has written at most three rows for
\* each article that passed summarization, none when none passed.
C20_FailedSummaryWritesNothing ==
  /\ [][\A r \in Reqs :
          (pc[r] = "summarizing" /\ pc'[r] = "delay") =>
            (store' = store /\ calls'[r].writes = calls[r].writes)]_vars
  /\ [][store' # store =>
          \E r \in Reqs :
            /\ pc[r] \in {"upsertAccount", "upsertArticle", "upsertSummary"}
            /\ loop[r].summaryResult # << >>
            /\ calls'[r].writes = calls[r].writes + 1]_vars
  /\ [](\A r \in Reqs :
          pc[r] \in {"loop", "delay", "done"} =>
            calls[r].writes <= 3 * Cardinality(PassedSummarization(loop[r].results)))

\* The link was stored by the first article of the list; for the second the
\* summarizer failed and the store holds what the first left.
C20_Witness ==
  \E r \in Reqs :
    /\ pc[r] = "delay"
    /\ Len(loop[r].results) = 2
    /\ loop[r].results[1].summary # Undefined
    /\ loop[r].results[2].error = Some(SummaryFailure(SummarizeFailed))
    /\ loop[r].results[2].url = loop[r].results[1].url
    /\ loop[r].results[2].title # loop[r].results[1].title
    /\ calls[r].writes = 3
    /\ \A a \in store.articles : a.title = loop[r].results[1].title

\* The stored article of the link and its stored summary are those r wrote:
\* the title and content r extracted, the summary r computed from them.
StoredBy(r, u) ==
  \E a \in store.articles :
    /\ a.url = u.raw
    /\ loop[r].extractedArticles # << >>
    /\ a.title = loop[r].extractedArticles[1].title
    /\ a.content = loop[r].extractedArticles[1].content
    /\ \E x \in store.summaries :
         /\ x.articleId = a.id
         /\ response[r][1].results[1].summary # Undefined
         /\ x.content = response[r][1].results[1].summary[1].summary
         /\ x.sentiment = response[r][1].results[1].summary[1].sentiment
         /\ x.category = response[r][1].results[1].summary[1].category

\* C21: when two requests for the same link have both been answered and a
\* summary is stored for the link, the stored article and the stored summary
\* are those of one of the two requests.
C21_ArticleAndSummaryAgree ==
  (/\ \A r \in Reqs : pc[r] = "done" /\ body[r].items = << uA >>
   /\ \E a \in store.articles, x \in store.summaries :
        a.url = uA.raw /\ x.articleId = a.id)
    => \E r \in Reqs : StoredBy(r, uA)

====
